---- MODULE Spec2Model ----
(***************************************************************************)
(* Model of scc::sqld (src/sqld.cc, src/pub/sqlite/sqld.h): the request   *)
(* Req that compiles and steps the statements of its sql() stream one at  *)
(* a time, the transaction helper Trans built on it, and the connection   *)
(* Conn they share.                                                        *)
(*                                                                         *)
(* Text is a sequence of one-byte tokens:                                  *)
(*   "D"  a statement that produces no rows (create, insert, ...)          *)
(*   "T"  a statement that can produce rows, of 2 columns                  *)
(*   "E"  a statement the engine refuses to compile                        *)
(*   "B" "C" "R"  BEGIN, COMMIT, ROLLBACK                                  *)
(*   ";"  the statement terminator,  " "  white space                      *)
(* Byte offsets are 0-based as in the code: offset p is element p+1.       *)
(***************************************************************************)
EXTENDS Integers, Sequences, FiniteSets, TLC

(* ---- bounds ---- *)
MaxLen == 4
MaxRows == 2

(* ---- vocabulary ---- *)
TransIds == {1, 2}
Threads == {1, 2}
NoStmt == [kind |-> "none"]
RowKinds == {"T"}
Fillers == {" ", ";"}

VARIABLES m_sql, m_pos, m_cols, m_stmt, m_active, db, status, last, fresh, thr
vars == <<m_sql, m_pos, m_cols, m_stmt, m_active, db, status, last, fresh, thr>>
reqvars == <<m_sql, m_pos, m_cols, m_stmt>>

(* the text a caller streams into sql() in one << *)
Chunks == {<<"D", ";">>, <<"T", ";">>, <<"E", ";">>, <<" ">>}

(***************************************************************************)
(* The engine (sqlite3), as the code uses it.                              *)
(***************************************************************************)

(* sqlite3_column_count of a compiled statement *)
ColumnCount(kind) == IF kind = "T" THEN 2 ELSE 0

RECURSIVE SkipLen(_)
(* number of leading bytes the parser passes over before a statement *)
SkipLen(z) ==
    IF z = << >> THEN 0
    ELSE IF Head(z) \in Fillers THEN 1 + SkipLen(Tail(z)) ELSE 0

(* sqlite3_prepare_v2 on the zero-terminated text z found at head:         *)
(* rc, the kind of the statement compiled ("none": *ppStmt is NULL),       *)
(* at = offset of the statement from head, used = tail - head              *)
Compile(z) ==
    LET k == SkipLen(z) IN
    IF k = Len(z) THEN [rc |-> "OK", kind |-> "none", at |-> k, used |-> k]
    ELSE IF z[k + 1] = "E" THEN [rc |-> "ERROR", kind |-> "none", at |-> k, used |-> k]
    ELSE [rc |-> "OK", kind |-> z[k + 1], at |-> k,
          used |-> IF k + 2 <= Len(z) /\ z[k + 2] = ";" THEN k + 2 ELSE k + 1]

(* what the bytes of a destroyed std::string temporary can hold when the   *)
(* engine reads them: a zero byte first, bytes that do not parse, or bytes *)
(* that read as white space for all the nByte bytes the engine may read    *)
StaleTexts(nByte) == {<< >>, <<"E">>, [i \in 1 .. nByte |-> " "]}

(* the copies of their buffers that the threads inside exec_select() put   *)
(* on the heap: each prepare() makes two with m_sql.str()                  *)
Heap == { thr[u].q.sql : u \in { v \in Threads : thr[v].pc # "idle" } }

(* the texts the engine can find at head = &(m_sql.str()[m_pos]): str()    *)
(* returns a temporary that is destroyed at the end of the declaration, so *)
(* head dangles when sqlite3_prepare_v2 reads it; the storage may still    *)
(* hold the text from m_pos on, or not, or have been taken for the copy of *)
(* another thread's buffer                                                 *)
HeadTexts(sql, pos) ==
    LET intact == SubSeq(sql, pos + 1, Len(sql))
    IN  { [z |-> intact, stale |-> FALSE] }
            \cup { [z |-> t, stale |-> TRUE] : t \in StaleTexts(Len(sql) + 1) }
            \cup { [z |-> SubSeq(x, pos + 1, Len(x)), stale |-> TRUE]
                    : x \in { y \in Heap : SubSeq(y, pos + 1, Len(y)) # intact } }

(* sqlite3_open: it leaves a handle in *ppDb also when it fails, except     *)
(* when it cannot allocate one                                             *)
OpenOutcomes ==
    { [rc |-> "OK", h |-> "open"], [rc |-> "ERROR", h |-> "failed"],
      [rc |-> "ERROR", h |-> "null"] }

(* sqlite3_close on the connection's handle while stmt is the request's    *)
(* statement handle: refused with SQLITE_BUSY, the handle staying open,    *)
(* while a statement compiled on it is not finalized                       *)
CloseOutcome(stmt) ==
    IF stmt # NoStmt /\ stmt.cur THEN "BUSY" ELSE "OK"

(* sqlite3_step on handle h with engine state d: the set of outcomes.      *)
(* h.rows counts the rows of the current execution; a handle that already  *)
(* reported DONE or an error starts over.                                  *)
StepOutcomes(h, d) ==
    LET given == IF h.st \in {"fresh", "row"} THEN h.rows ELSE 0
        fail  == { [rc |-> "ERROR", h |-> [h EXCEPT !.st = "error", !.rows = 0], d |-> d] }
        done  == { [rc |-> "DONE", h |-> [h EXCEPT !.st = "done", !.rows = 0], d |-> d] }
        row   == IF h.kind \in RowKinds /\ given < MaxRows
                 THEN { [rc |-> "ROW",
                         h |-> [h EXCEPT !.st = "row", !.rows = given + 1],
                         d |-> d] }
                 ELSE {}
    IN  CASE h.kind = "B" ->
               IF d.txn THEN fail
               ELSE fail \cup { [rc |-> "DONE", h |-> [h EXCEPT !.st = "done", !.rows = 0],
                                 d |-> [d EXCEPT !.txn = TRUE]] }
          [] h.kind \in {"C", "R"} ->
               IF d.txn
               THEN fail \cup { [rc |-> "DONE", h |-> [h EXCEPT !.st = "done", !.rows = 0],
                                 d |-> [d EXCEPT !.txn = FALSE]] }
               ELSE fail
          [] OTHER -> fail \cup done \cup row

(***************************************************************************)
(* Req.  A request is a record q = [sql, pos, cols, stmt]; an operation    *)
(* maps it to the set of its outcomes                                      *)
(*   [q, d, ret, err, calls]                                               *)
(* where err is "none", "usage" or "engine" (the runtime_error thrown) and *)
(* calls is the sequence of engine calls the operation made.               *)
(***************************************************************************)

NewReq(sql) == [sql |-> sql, pos |-> 0, cols |-> 0, stmt |-> NoStmt]

FinalizeCalls(q) ==
    IF q.stmt # NoStmt THEN << [fn |-> "finalize", at |-> q.stmt.at] >> ELSE << >>

(* Req::finalize *)
finalize(q) == [q EXCEPT !.stmt = NoStmt]

(* Req::clear *)
clear(q) == [finalize(q) EXCEPT !.sql = << >>, !.pos = 0, !.cols = 0]

(* Req::reset *)
reset(q) == [finalize(q) EXCEPT !.pos = 0, !.cols = 0]

(* sqlite3_prepare_v2 handed a connection handle that is null or was left  *)
(* by a failed sqlite3_open: refused before the text is read               *)
Misuse(q) ==
    [fn |-> "prepare", head |-> q.pos, nByte |-> Len(q.sql) + 1, stale |-> FALSE,
     rc |-> "ERROR", kind |-> "none", at |-> q.pos]

(* prepare() that calls finalize() only when nothing is left to compile *)
prepare_leaky(q, d) ==
    IF q.pos >= Len(q.sql)
    THEN { [q |-> finalize(q), err |-> "none", calls |-> FinalizeCalls(q)] }
    ELSE IF d.h # "open"
    THEN { [q |-> [q EXCEPT !.stmt = NoStmt], err |-> "engine",
            calls |-> << Misuse(q) >>] }
    ELSE { LET c    == Compile(t.z)
               call == [fn |-> "prepare", head |-> q.pos,
                        nByte |-> Len(q.sql) + 1, stale |-> t.stale,
                        rc |-> c.rc, kind |-> c.kind, at |-> q.pos + c.at]
           IN  IF c.rc # "OK"
               THEN [q |-> [q EXCEPT !.stmt = NoStmt], err |-> "engine",
                     calls |-> << call >>]
               ELSE [q |-> [q EXCEPT
                              !.stmt = IF c.kind = "none" THEN NoStmt
                                       ELSE [kind |-> c.kind,
                                             at |-> q.pos + c.at,
                                             st |-> "fresh", rows |-> 0,
                                             cur |-> TRUE],
                              !.pos = q.pos + c.used],
                     err |-> "none", calls |-> << call >>]
           : t \in HeadTexts(q.sql, q.pos) }

(* prepare() that moves m_pos past the statement that failed to compile *)
prepare_advancing(q, d) ==
    LET q1 == finalize(q)
        c1 == FinalizeCalls(q)
    IN  IF q1.pos >= Len(q1.sql)
        THEN { [q |-> q1, err |-> "none", calls |-> c1] }
        ELSE IF d.h # "open"
        THEN { [q |-> q1, err |-> "engine", calls |-> Append(c1, Misuse(q1))] }
        ELSE { LET c    == Compile(t.z)
                   call == [fn |-> "prepare", head |-> q1.pos,
                            nByte |-> Len(q1.sql) + 1, stale |-> t.stale,
                            rc |-> c.rc, kind |-> c.kind, at |-> q1.pos + c.at]
               IN  IF c.rc # "OK"
                   THEN [q |-> [q1 EXCEPT !.pos = q1.pos + c.at + 1],
                         err |-> "engine", calls |-> Append(c1, call)]
                   ELSE [q |-> [q1 EXCEPT
                                  !.stmt = IF c.kind = "none" THEN NoStmt
                                           ELSE [kind |-> c.kind,
                                                 at |-> q1.pos + c.at,
                                                 st |-> "fresh", rows |-> 0,
                                                 cur |-> TRUE],
                                  !.pos = q1.pos + c.used],
                         err |-> "none", calls |-> Append(c1, call)]
               : t \in HeadTexts(q1.sql, q1.pos) }

(* Req::prepare on the connection d: outcomes [q, err, calls] *)
prepare(q, d) ==
    LET q1 == finalize(q)
        c1 == FinalizeCalls(q)
    IN  IF q1.pos >= Len(q1.sql)
        THEN { [q |-> q1, err |-> "none", calls |-> c1] }
        ELSE IF d.h # "open"
        THEN { [q |-> q1, err |-> "engine", calls |-> Append(c1, Misuse(q1))] }
        ELSE { LET c    == Compile(t.z)
                   call == [fn |-> "prepare", head |-> q1.pos,
                            nByte |-> Len(q1.sql) + 1, stale |-> t.stale,
                            rc |-> c.rc, kind |-> c.kind, at |-> q1.pos + c.at]
               IN  IF c.rc # "OK"
                   THEN [q |-> q1, err |-> "engine", calls |-> Append(c1, call)]
                   ELSE [q |-> [q1 EXCEPT
                                  !.stmt = IF c.kind = "none" THEN NoStmt
                                           ELSE [kind |-> c.kind,
                                                 at |-> q1.pos + c.at,
                                                 st |-> "fresh", rows |-> 0,
                                                 cur |-> TRUE],
                                  !.pos = q1.pos + c.used],
                         err |-> "none", calls |-> Append(c1, call)]
               : t \in HeadTexts(q1.sql, q1.pos) }

StepCall(h, rc) == [fn |-> "step", at |-> h.at, kind |-> h.kind, rc |-> rc]

RECURSIVE ExecSelectLoop(_, _, _)
(* the while (1) loop of Req::exec_select *)
ExecSelectLoop(q, d, calls) ==
    UNION { IF p.err # "none"
            THEN { [q |-> p.q, d |-> d, ret |-> 0, err |-> p.err,
                    calls |-> calls \o p.calls] }
            ELSE IF p.q.stmt = NoStmt
            THEN { [q |-> p.q, d |-> d, ret |-> 0, err |-> "none",
                    calls |-> calls \o p.calls] }
            ELSE UNION {
                   LET q2 == [p.q EXCEPT !.stmt = s.h]
                       c2 == Append(calls \o p.calls, StepCall(p.q.stmt, s.rc))
                   IN  CASE s.rc = "DONE" -> ExecSelectLoop(q2, s.d, c2)
                         [] s.rc = "ROW" ->
                              { [q |-> [q2 EXCEPT !.cols = ColumnCount(q2.stmt.kind)],
                                 d |-> s.d, ret |-> ColumnCount(q2.stmt.kind),
                                 err |-> "none", calls |-> c2] }
                         [] OTHER ->
                              { [q |-> q2, d |-> s.d, ret |-> 0,
                                 err |-> "engine", calls |-> c2] }
                   : s \in StepOutcomes(p.q.stmt, d) }
          : p \in prepare(q, d) }

(* exec_select() without the test of m_cols *)
exec_select_unguarded(q, d) == ExecSelectLoop(q, d, << >>)

(* Req::exec_select *)
exec_select(q, d) ==
    IF q.cols # 0
    THEN { [q |-> q, d |-> d, ret |-> 0, err |-> "usage", calls |-> << >>] }
    ELSE ExecSelectLoop(q, d, << >>)

(* next_row() without the test of m_cols *)
next_row_unguarded(q, d) ==
    IF q.stmt = NoStmt
    THEN { [q |-> q, d |-> d, ret |-> 0, err |-> "usage", calls |-> << >>] }
    ELSE { LET q2 == [q EXCEPT !.stmt = s.h]
               c2 == << StepCall(q.stmt, s.rc) >>
           IN  CASE s.rc = "DONE" ->
                      [q |-> [q2 EXCEPT !.cols = 0], d |-> s.d, ret |-> 0,
                       err |-> "none", calls |-> c2]
                 [] s.rc = "ROW" ->
                      [q |-> q2, d |-> s.d, ret |-> ColumnCount(q2.stmt.kind),
                       err |-> "none", calls |-> c2]
                 [] OTHER ->
                      [q |-> q2, d |-> s.d, ret |-> 0, err |-> "engine",
                       calls |-> c2]
           : s \in StepOutcomes(q.stmt, d) }

(* next_row() that leaves m_cols as it is when the engine reports DONE *)
next_row_keeps_cols(q, d) ==
    IF q.stmt = NoStmt \/ q.cols = 0
    THEN { [q |-> q, d |-> d, ret |-> 0, err |-> "usage", calls |-> << >>] }
    ELSE { LET q2 == [q EXCEPT !.stmt = s.h]
               c2 == << StepCall(q.stmt, s.rc) >>
           IN  CASE s.rc = "DONE" ->
                      [q |-> q2, d |-> s.d, ret |-> 0,
                       err |-> "none", calls |-> c2]
                 [] s.rc = "ROW" ->
                      [q |-> q2, d |-> s.d, ret |-> ColumnCount(q2.stmt.kind),
                       err |-> "none", calls |-> c2]
                 [] OTHER ->
                      [q |-> q2, d |-> s.d, ret |-> 0, err |-> "engine",
                       calls |-> c2]
           : s \in StepOutcomes(q.stmt, d) }

(* Req::next_row *)
next_row(q, d) ==
    IF q.stmt = NoStmt \/ q.cols = 0
    THEN { [q |-> q, d |-> d, ret |-> 0, err |-> "usage", calls |-> << >>] }
    ELSE { LET q2 == [q EXCEPT !.stmt = s.h]
               c2 == << StepCall(q.stmt, s.rc) >>
           IN  CASE s.rc = "DONE" ->
                      [q |-> [q2 EXCEPT !.cols = 0], d |-> s.d, ret |-> 0,
                       err |-> "none", calls |-> c2]
                 [] s.rc = "ROW" ->
                      [q |-> q2, d |-> s.d, ret |-> ColumnCount(q2.stmt.kind),
                       err |-> "none", calls |-> c2]
                 [] OTHER ->
                      [q |-> q2, d |-> s.d, ret |-> 0, err |-> "engine",
                       calls |-> c2]
           : s \in StepOutcomes(q.stmt, d) }

RECURSIVE Drain(_, _, _)
(* while (next_row()) { } in Req::exec *)
Drain(q, d, calls) ==
    UNION { IF n.err # "none" \/ n.ret = 0
            THEN { [n EXCEPT !.calls = calls \o n.calls] }
            ELSE Drain(n.q, n.d, calls \o n.calls)
          : n \in next_row(q, d) }

RECURSIVE ExecLoop(_, _, _)
(* the while (1) loop of Req::exec *)
ExecLoop(q, d, calls) ==
    UNION { IF e.err # "none" \/ e.ret = 0
            THEN { [e EXCEPT !.calls = calls \o e.calls] }
            ELSE UNION { IF n.err # "none" THEN { n }
                         ELSE ExecLoop(n.q, n.d, n.calls)
                       : n \in Drain(e.q, e.d, calls \o e.calls) }
          : e \in exec_select(q, d) }

(* Req::exec *)
exec(q, d) ==
    IF q.cols # 0
    THEN { [q |-> q, d |-> d, ret |-> 0, err |-> "usage", calls |-> << >>] }
    ELSE ExecLoop(q, d, << >>)

(* the checks every column accessor starts with (col_name, col_text,       *)
(* col_int, col_int64, col_real, col_blob)                                 *)
col_check(q, col) ==
    IF q.stmt = NoStmt \/ q.cols = 0 \/ col < 0 \/ col >= q.cols
    THEN [err |-> "usage", calls |-> << >>]
    ELSE [err |-> "none", calls |-> << [fn |-> "column", at |-> q.stmt.at, col |-> col] >>]

(***************************************************************************)
(* Trans.  Each operation builds a Req on the stack, streams one           *)
(* statement into it, runs exec() and lets the Req go out of scope.        *)
(***************************************************************************)

(* Req r(m_conn); r.sql() << text; r.exec(); followed by ~Req *)
RunStatement(body, d) ==
    { [d |-> e.d, err |-> e.err, calls |-> e.calls \o FinalizeCalls(e.q)]
      : e \in exec(NewReq(<<body, ";">>), d) }

(* begin() without the test of m_active *)
begin_unguarded(active, d) ==
    { [active |-> IF e.err = "none" THEN TRUE ELSE active,
       d |-> e.d, err |-> e.err, calls |-> e.calls]
      : e \in RunStatement("B", d) }

(* Trans::begin: outcomes [active, d, err, calls] *)
begin(active, d) ==
    IF active
    THEN { [active |-> active, d |-> d, err |-> "usage", calls |-> << >>] }
    ELSE { [active |-> IF e.err = "none" THEN TRUE ELSE active,
            d |-> e.d, err |-> e.err, calls |-> e.calls]
           : e \in RunStatement("B", d) }

(* Trans::commit *)
commit(active, d) ==
    IF ~active
    THEN { [active |-> active, d |-> d, err |-> "usage", calls |-> << >>] }
    ELSE { [active |-> IF e.err = "none" THEN FALSE ELSE active,
            d |-> e.d, err |-> e.err, calls |-> e.calls]
           : e \in RunStatement("C", d) }

(* Trans::abort *)
abort(active, d) ==
    IF ~active
    THEN { [active |-> active, d |-> d, err |-> "usage", calls |-> << >>] }
    ELSE { [active |-> IF e.err = "none" THEN FALSE ELSE active,
            d |-> e.d, err |-> e.err, calls |-> e.calls]
           : e \in RunStatement("R", d) }

(* Trans::~Trans: outcomes [d, err, calls]; err is the exception that      *)
(* leaves abort() inside the destructor                                    *)
DestroyTrans(active, d) ==
    IF active
    THEN { [d |-> e.d, err |-> e.err, calls |-> e.calls] : e \in abort(active, d) }
    ELSE { [d |-> d, err |-> "none", calls |-> << >>] }

(***************************************************************************)
(* Conn.  The connection is a record d = [h, txn, lost]: h is m_db ("open" *)
(* a usable handle, "failed" the handle a failed sqlite3_open left,        *)
(* "null"), txn whether the engine has a transaction open on it, lost      *)
(* whether a handle m_db once held was dropped without the engine having   *)
(* released it.                                                            *)
(***************************************************************************)

(* Conn::close: outcome [d, calls] *)
close(d, stmt) ==
    IF d.h = "null" THEN [d |-> d, calls |-> << >>]
    ELSE [d |-> [h |-> "null", txn |-> FALSE,
                 lost |-> d.lost \/ CloseOutcome(stmt) # "OK"],
          calls |-> << [fn |-> "close", rc |-> CloseOutcome(stmt)] >>]

(* Conn::reopen: outcomes [d, err, calls] *)
reopen(d, stmt) ==
    LET c == close(d, stmt)
    IN  { [d |-> [c.d EXCEPT !.h = o.h],
           err |-> IF o.rc = "OK" THEN "none" ELSE "engine",
           calls |-> Append(c.calls, [fn |-> "open", rc |-> o.rc])]
          : o \in OpenOutcomes }

(***************************************************************************)
(* State machine: one Req and the Trans objects TransIds, all on one       *)
(* connection.                                                             *)
(*                                                                         *)
(* last records the operation just made: its name, argument, return value, *)
(* the error it threw and the engine calls it made.  fresh holds when      *)
(* nothing but sql() was used on the request since its last clear().       *)
(***************************************************************************)

(* a thread that drives a request of its own: the request q, pc its        *)
(* position in exec_select() ("idle" outside it, "prepare" before the      *)
(* prepare() of the loop, "step" before its sqlite3_step), own whether the *)
(* handle it holds was compiled from the text of its own buffer, log the   *)
(* statements it stepped in exec_select()                                  *)
ThreadReq(sql) == [q |-> NewReq(sql), pc |-> "idle", own |-> TRUE, log |-> << >>]

Q == [sql |-> m_sql, pos |-> m_pos, cols |-> m_cols, stmt |-> m_stmt]

SetReq(q) ==
    /\ m_sql' = q.sql
    /\ m_pos' = q.pos
    /\ m_cols' = q.cols
    /\ m_stmt' = q.stmt

Done(op, arg, ret, err, calls) ==
    last' = [op |-> op, arg |-> arg, ret |-> ret, err |-> err, calls |-> calls]

Init ==
    /\ m_sql = << >>
    /\ m_pos = 0
    /\ m_cols = 0
    /\ m_stmt = NoStmt
    /\ m_active = [t \in TransIds |-> FALSE]
    /\ db = [h |-> "open", txn |-> FALSE, lost |-> FALSE]
    /\ status = "running"
    /\ last = [op |-> "init", arg |-> 0, ret |-> 0, err |-> "none", calls |-> << >>]
    /\ fresh = FALSE
    /\ thr = [t \in Threads |-> ThreadReq(<< >>)]

(* req.sql() << chunk *)
Sql ==
    /\ status = "running"
    /\ \E c \in Chunks :
         /\ Len(m_sql) + Len(c) <= MaxLen
         /\ m_sql' = m_sql \o c
         /\ Done("sql", Len(c), 0, "none", << >>)
    /\ UNCHANGED <<m_pos, m_cols, m_stmt, m_active, db, status, fresh, thr>>

Clear ==
    /\ status = "running"
    /\ SetReq(clear(Q))
    /\ Done("clear", 0, 0, "none", FinalizeCalls(Q))
    /\ fresh' = TRUE
    /\ UNCHANGED <<m_active, db, status, thr>>

Reset ==
    /\ status = "running"
    /\ SetReq(reset(Q))
    /\ Done("reset", 0, 0, "none", FinalizeCalls(Q))
    /\ fresh' = FALSE
    /\ UNCHANGED <<m_active, db, status, thr>>

ExecSelect ==
    /\ status = "running"
    /\ \E o \in exec_select(Q, db) :
         /\ SetReq(o.q)
         /\ db' = o.d
         /\ Done("exec_select", 0, o.ret, o.err, o.calls)
    /\ fresh' = FALSE
    /\ UNCHANGED <<m_active, status, thr>>

NextRow ==
    /\ status = "running"
    /\ \E o \in next_row(Q, db) :
         /\ SetReq(o.q)
         /\ db' = o.d
         /\ Done("next_row", 0, o.ret, o.err, o.calls)
    /\ fresh' = FALSE
    /\ UNCHANGED <<m_active, status, thr>>

Exec ==
    /\ status = "running"
    /\ \E o \in exec(Q, db) :
         /\ SetReq(o.q)
         /\ db' = o.d
         /\ Done("exec", 0, o.ret, o.err, o.calls)
    /\ fresh' = FALSE
    /\ UNCHANGED <<m_active, status, thr>>

(* any of the column accessors, on column col *)
Column ==
    /\ status = "running"
    /\ \E col \in -1 .. 2 :
         LET o == col_check(Q, col) IN Done("column", col, 0, o.err, o.calls)
    /\ fresh' = FALSE
    /\ UNCHANGED <<m_sql, m_pos, m_cols, m_stmt, m_active, db, status, thr>>

TransApply(op, t, o) ==
    /\ m_active' = [m_active EXCEPT ![t] = o.active]
    /\ db' = o.d
    /\ Done(op, t, 0, o.err, o.calls)

(* the request goes out of scope and the next one is declared: ~Req, then *)
(* Req::Req                                                                *)
ReqDelete ==
    /\ status = "running"
    /\ SetReq(NewReq(<< >>))
    /\ Done("~Req", 0, 0, "none", FinalizeCalls(Q))
    /\ fresh' = TRUE
    /\ UNCHANGED <<m_active, db, status, thr>>

(* x.begin() *)
Begin ==
    /\ status = "running"
    /\ \E t \in TransIds :
         \E o \in begin(m_active[t], db) : TransApply("begin", t, o)
    /\ UNCHANGED <<m_sql, m_pos, m_cols, m_stmt, status, fresh, thr>>

(* x.commit() *)
Commit ==
    /\ status = "running"
    /\ \E t \in TransIds :
         \E o \in commit(m_active[t], db) : TransApply("commit", t, o)
    /\ UNCHANGED <<m_sql, m_pos, m_cols, m_stmt, status, fresh, thr>>

(* x.abort() *)
Abort ==
    /\ status = "running"
    /\ \E t \in TransIds :
         \E o \in abort(m_active[t], db) : TransApply("abort", t, o)
    /\ UNCHANGED <<m_sql, m_pos, m_cols, m_stmt, status, fresh, thr>>

(* a Trans goes out of scope and the next one is declared: ~Trans, then   *)
(* Trans::Trans.  The destructor is noexcept, so an exception leaving      *)
(* abort() ends the program in std::terminate                              *)
TransDelete ==
    /\ status = "running"
    /\ \E t \in TransIds :
         \E o \in DestroyTrans(m_active[t], db) :
              /\ db' = o.d
              /\ status' = IF o.err = "none" THEN "running" ELSE "terminated"
              /\ m_active' = [m_active EXCEPT ![t] = (o.err # "none")]
              /\ Done("~Trans", t, 0, o.err, o.calls)
    /\ UNCHANGED <<m_sql, m_pos, m_cols, m_stmt, fresh, thr>>

Next ==
    \/ Sql
    \/ Clear
    \/ Reset
    \/ ExecSelect
    \/ NextRow
    \/ Exec
    \/ Column
    \/ ReqDelete
    \/ Begin
    \/ Commit
    \/ Abort
    \/ TransDelete

Spec == Init /\ [][Next]_vars

(* db.reopen(uri); a statement handle the request still holds stays with   *)
(* the handle it was compiled on                                           *)
Reopen ==
    /\ status = "running"
    /\ \E o \in reopen(db, m_stmt) :
         /\ db' = o.d
         /\ Done("reopen", 0, 0, o.err, o.calls)
    /\ m_stmt' = IF m_stmt = NoStmt THEN NoStmt ELSE [m_stmt EXCEPT !.cur = FALSE]
    /\ UNCHANGED <<m_sql, m_pos, m_cols, m_active, status, fresh, thr>>

(* one request on a connection that is reopened *)
NextConn ==
    \/ Sql
    \/ Clear
    \/ Reset
    \/ ExecSelect
    \/ NextRow
    \/ Exec
    \/ Column
    \/ ReqDelete
    \/ Reopen

SpecConn == Init /\ [][NextConn]_vars

(* the Trans objects alone *)
NextTrans ==
    \/ Begin
    \/ Commit
    \/ Abort
    \/ TransDelete

SpecTrans == Init /\ [][NextTrans]_vars

TypeOK ==
    /\ m_pos \in Nat
    /\ m_cols \in 0 .. 2
    /\ Len(m_sql) <= MaxLen
    /\ status \in {"running", "terminated"}

(***************************************************************************)
(* Vocabulary of the properties                                            *)
(***************************************************************************)

RECURSIVE StmtOffsets(_, _)
(* the offsets of the statements of text sql at or after offset pos, in    *)
(* buffer order                                                            *)
StmtOffsets(sql, pos) ==
    IF pos >= Len(sql) THEN << >>
    ELSE IF sql[pos + 1] \in Fillers THEN StmtOffsets(sql, pos + 1)
    ELSE <<pos>> \o StmtOffsets(sql, pos + 1)

IsStep(c) == c.fn = "step"

IsPrepare(c) == c.fn = "prepare"

(* the sqlite3_step calls among calls, in the order they were made *)
Steps(calls) == SelectSeq(calls, IsStep)

Prepares(calls) == SelectSeq(calls, IsPrepare)

Ats(steps) == [i \in 1 .. Len(steps) |-> steps[i].at]

IsDoneStep(c) == c.fn = "step" /\ c.rc = "DONE"

(* the statements that were stepped to completion, in order *)
Completed(calls) == Ats(SelectSeq(calls, IsDoneStep))

IsPrefix(s, t) ==
    /\ Len(s) <= Len(t)
    /\ \A i \in 1 .. Len(s) : s[i] = t[i]

(* an exec_select() from offset pos of sql made these calls and returned   *)
(* ret: every statement from pos on was stepped once, in order, up to and  *)
(* including the first one with a row; ret is that row's column count, or  *)
(* 0 when every remaining statement reported DONE                          *)
SelectedInOrder(sql, pos, calls, ret) ==
    LET st  == Steps(calls)
        exp == StmtOffsets(sql, pos)
        n   == Len(st)
    IN  /\ IsPrefix(Ats(st), exp)
        /\ \A i \in 1 .. n - 1 : st[i].rc = "DONE"
        /\ IF ret > 0
           THEN /\ n >= 1
                /\ st[n].rc = "ROW"
                /\ ret = ColumnCount(sql[exp[n] + 1])
           ELSE /\ n = Len(exp)
                /\ \A i \in 1 .. n : st[i].rc = "DONE"

(* an exec() from offset pos of sql made these calls: every statement from *)
(* pos on was stepped in order, each until it reported DONE before the     *)
(* next one was compiled                                                   *)
ExecutedAll(sql, pos, calls) ==
    LET st == Steps(calls)
    IN  /\ Completed(calls) = StmtOffsets(sql, pos)
        /\ \A i \in 1 .. Len(st) :
             st[i].rc = "ROW" => (i < Len(st) /\ st[i + 1].at = st[i].at)

(***************************************************************************)
(* Properties                                                              *)
(***************************************************************************)

(* C1: exec_select() called with column count 0 steps the remaining        *)
(* statements one at a time in buffer order, none out of order, twice or   *)
(* passed over; it skips the statements that report DONE and returns the   *)
(* column count of the first one that yields a row, or 0 when no           *)
(* statement remains.                                                      *)
C1_SelectInOrder ==
    [][ (last'.op = "exec_select" /\ m_cols = 0)
        => /\ IsPrefix(Ats(Steps(last'.calls)), StmtOffsets(m_sql, m_pos))
           /\ last'.err = "none"
                => SelectedInOrder(m_sql, m_pos, last'.calls, last'.ret) ]_vars

(* the offset of the first statement of sql at or after pos, or -1 *)
NextStmt(sql, pos) ==
    IF StmtOffsets(sql, pos) = << >> THEN -1 ELSE StmtOffsets(sql, pos)[1]

(* C2: for a row-producing statement of N columns exec_select() returns N, *)
(* every next_row() for which the engine has another row returns N, the    *)
(* next_row() at which the engine reports DONE returns 0 and sets the      *)
(* column count to 0, and an exec_select() that follows it continues with  *)
(* the next statement of the buffer (returning 0 if there is none).        *)
C2_RowsThenNext ==
    [][ /\ (last'.op = "exec_select" /\ last'.ret > 0)
           => /\ m_stmt' # NoStmt
              /\ last'.ret = ColumnCount(m_stmt'.kind)
              /\ m_cols' = last'.ret
        /\ (last'.op = "next_row" /\ last'.err = "none")
           => /\ Len(last'.calls) = 1
              /\ last'.calls[1].rc = "ROW"
                   => last'.ret = ColumnCount(m_stmt.kind) /\ m_cols' = m_cols
              /\ last'.calls[1].rc = "DONE"
                   => last'.ret = 0 /\ m_cols' = 0
        /\ (/\ last.op = "next_row" /\ last.ret = 0 /\ last.err = "none"
            /\ last'.op = "exec_select" /\ last'.err = "none")
           => LET st == Steps(last'.calls)
                  nx == NextStmt(m_sql, m_stmt.at + 1)
              IN  IF nx = -1 THEN st = << >> /\ last'.ret = 0
                  ELSE st # << >> /\ st[1].at = nx ]_vars

(* C3: exec() called with column count 0 steps every statement remaining   *)
(* in the buffer, in order, each until the engine reports DONE before the  *)
(* next one is compiled; when it returns the column count is 0 and the     *)
(* offset is at or past the end of the buffer.                             *)
C3_ExecAll ==
    [][ (last'.op = "exec" /\ m_cols = 0 /\ last'.err = "none")
        => /\ ExecutedAll(m_sql, m_pos, last'.calls)
           /\ m_cols' = 0
           /\ m_pos' >= Len(m_sql') ]_vars

(* C4: exec_select() called while a row is current (column count > 0)      *)
(* fails with a usage error, makes no call to the engine and leaves the    *)
(* buffer, offset, column count and compiled handle unchanged.             *)
C4_SelectWithRow ==
    [][ (last'.op = "exec_select" /\ m_cols > 0)
        => /\ last'.err = "usage"
           /\ last'.calls = << >>
           /\ UNCHANGED reqvars ]_vars

C4_Witness ==
    /\ last.op = "exec_select"
    /\ last.err = "usage"
    /\ m_cols > 0
    /\ m_stmt # NoStmt

(* C5: next_row() and the column accessors fail with a usage error,        *)
(* without calling the engine and without changing the request, when       *)
(* there is no compiled handle or the column count is 0; a column          *)
(* accessor also fails so when its index is outside [0, column count).     *)
C5_NoRow ==
    [][ /\ (last'.op = "next_row" /\ (m_stmt = NoStmt \/ m_cols = 0))
           => /\ last'.err = "usage"
              /\ last'.calls = << >>
              /\ UNCHANGED <<reqvars, db>>
        /\ (/\ last'.op = "column"
            /\ \/ m_stmt = NoStmt
               \/ m_cols = 0
               \/ last'.arg < 0
               \/ last'.arg >= m_cols)
           => /\ last'.err = "usage"
              /\ last'.calls = << >>
              /\ UNCHANGED <<reqvars, db>> ]_vars

C5_Witness ==
    /\ last.op = "next_row"
    /\ last.err = "usage"
    /\ m_stmt # NoStmt
    /\ m_cols = 0

(* C6: reset() leaves the buffer unchanged, sets the offset and the        *)
(* column count to 0 and releases the compiled handle; an exec() after     *)
(* reset() executes the whole script again, from its first statement.      *)
C6_ResetRewinds ==
    [][ /\ last'.op = "reset"
           => /\ m_sql' = m_sql
              /\ m_pos' = 0
              /\ m_cols' = 0
              /\ m_stmt' = NoStmt
              /\ (m_stmt # NoStmt) = (Len(last'.calls) = 1)
        /\ (last.op = "reset" /\ last'.op = "exec" /\ last'.err = "none")
           => ExecutedAll(m_sql, 0, last'.calls) ]_vars

(* C7: clear() leaves an empty buffer, offset 0, column count 0 and no     *)
(* compiled handle; an exec_select() right after clear() returns 0         *)
(* without a compile request; text appended after clear() is executed      *)
(* from its first byte.                                                    *)
C7_ClearEmpties ==
    [][ /\ last'.op = "clear"
           => /\ m_sql' = << >>
              /\ m_pos' = 0
              /\ m_cols' = 0
              /\ m_stmt' = NoStmt
        /\ (last.op = "clear" /\ last'.op = "exec_select")
           => /\ last'.ret = 0
              /\ last'.err = "none"
              /\ Prepares(last'.calls) = << >>
        /\ (last.op = "clear" /\ last'.op = "sql")
           => m_pos' = 0 /\ Len(m_sql') = last'.arg
        /\ (/\ fresh /\ last.op = "sql"
            /\ last'.op = "exec" /\ last'.err = "none")
           => ExecutedAll(m_sql, 0, last'.calls) ]_vars

Accepted(calls, kind) ==
    \E i \in 1 .. Len(calls) :
        calls[i].fn = "step" /\ calls[i].kind = kind /\ calls[i].rc = "DONE"

Failed(calls, kind) ==
    \E i \in 1 .. Len(calls) :
        calls[i].fn = "step" /\ calls[i].kind = kind /\ calls[i].rc = "ERROR"

Issued(calls, kind) ==
    \E i \in 1 .. Len(calls) : calls[i].fn = "step" /\ calls[i].kind = kind

(* C8: begin() on an active Trans, and commit() or abort() on an inactive  *)
(* one, fail with a usage error, send nothing to the engine and leave the  *)
(* active flag unchanged; in the right state and accepted by the engine,   *)
(* begin() makes the Trans active and commit() and abort() make it         *)
(* inactive.                                                               *)
C8_TransStates ==
    [][ /\ \/ last'.op = "begin" /\ m_active[last'.arg]
           \/ last'.op \in {"commit", "abort"} /\ ~m_active[last'.arg]
           => /\ last'.err = "usage"
              /\ last'.calls = << >>
              /\ UNCHANGED <<m_active, db>>
        /\ (last'.op = "begin" /\ ~m_active[last'.arg] /\ Accepted(last'.calls, "B"))
           => m_active'[last'.arg] /\ last'.err = "none"
        /\ (last'.op = "commit" /\ m_active[last'.arg] /\ Accepted(last'.calls, "C"))
           => ~m_active'[last'.arg] /\ last'.err = "none"
        /\ (last'.op = "abort" /\ m_active[last'.arg] /\ Accepted(last'.calls, "R"))
           => ~m_active'[last'.arg] /\ last'.err = "none" ]_vars

C8_Witness ==
    /\ last.op = "begin"
    /\ last.err = "usage"
    /\ m_active[last.arg]
    /\ db.txn

(* C9: destroying an active Trans issues a ROLLBACK to the engine, so that *)
(* no transaction remains open once the destruction has completed;         *)
(* destroying an inactive Trans issues nothing to the engine.              *)
C9_DestroyRollsBack ==
    [][ last'.op = "~Trans"
        => IF m_active[last'.arg]
           THEN /\ Issued(last'.calls, "R")
                /\ status' = "running" => ~db'.txn
           ELSE last'.calls = << >> /\ db' = db ]_vars

(* C10: when the ROLLBACK forced by the destructor of an active Trans      *)
(* fails in the engine, the error does not leave the destructor and the    *)
(* destruction completes normally.                                         *)
C10_DestructorSwallows ==
    (last.op = "~Trans" /\ Failed(last.calls, "R"))
        => status = "running"

(* C11: the engine is never asked to nest transactions: no BEGIN is issued *)
(* on the connection while an earlier BEGIN on it is still unmatched by a  *)
(* COMMIT or ROLLBACK.                                                     *)
C11_NoNesting ==
    [][ (last'.op = "begin" /\ Issued(last'.calls, "B")) => ~db.txn ]_vars

(* every statement of sql at or after pos is one that produces no rows *)
OnlyNonRow(sql, pos) ==
    \A i \in 1 .. Len(StmtOffsets(sql, pos)) : sql[StmtOffsets(sql, pos)[i] + 1] = "D"

(* C15: for a script that holds only statements that produce no rows,     *)
(* exec_select() steps every one of them, returns 0 and leaves the stream  *)
(* idle: no compiled handle and column count 0.                            *)
C15_NonRowScript ==
    [][ (/\ last'.op = "exec_select" /\ m_cols = 0 /\ last'.err = "none"
         /\ OnlyNonRow(m_sql, m_pos))
        => /\ Completed(last'.calls) = StmtOffsets(m_sql, m_pos)
           /\ last'.ret = 0
           /\ m_stmt' = NoStmt
           /\ m_cols' = 0 ]_vars

(* C16: in every reachable state of a request a column count other than 0  *)
(* implies that a compiled handle exists and is positioned on a live row   *)
(* (its last step reported ROW), also after an operation that ended in an  *)
(* engine error.                                                           *)
C16_ColsMeanRow ==
    m_cols # 0 => (m_stmt # NoStmt /\ m_stmt.st = "row")

(* C17: when next_row() returns 0 the stream is idle: the column count is  *)
(* 0 and no compiled handle is held.                                       *)
C17_DoneIsIdle ==
    (last.op = "next_row" /\ last.err = "none" /\ last.ret = 0)
        => (m_cols = 0 /\ m_stmt = NoStmt)

(* C17 as the code has it: when next_row() returns 0 the column count is 0 *)
(* and the handle of the finished statement is still held; the next        *)
(* exec_select(), exec(), clear() or reset() releases it first.            *)
C17_DoneKeepsHandle ==
    [][ /\ (last'.op = "next_row" /\ last'.err = "none" /\ last'.ret = 0)
           => /\ m_cols' = 0
              /\ m_stmt' # NoStmt
              /\ m_stmt'.st = "done"
              /\ m_stmt'.at = m_stmt.at
        /\ (/\ last.op = "next_row" /\ last.err = "none" /\ last.ret = 0
            /\ last'.op \in {"exec_select", "exec", "clear", "reset"})
           => /\ last'.calls # << >>
              /\ last'.calls[1] = [fn |-> "finalize", at |-> m_stmt.at] ]_vars

C17_Witness ==
    /\ last.op = "next_row"
    /\ last.err = "none"
    /\ last.ret = 0
    /\ m_cols = 0
    /\ m_stmt # NoStmt
    /\ m_stmt.st = "done"

Held(stmt) == IF stmt = NoStmt THEN 0 ELSE 1

RECURSIVE HeldAfter(_, _)
(* the number of compiled handles not yet released after the engine calls  *)
(* calls, starting from held; -1 once a handle is compiled while another   *)
(* is unreleased, or sqlite3_finalize is called with none unreleased       *)
HeldAfter(calls, held) ==
    IF held = -1 \/ calls = << >> THEN held
    ELSE LET c == Head(calls)
             h == CASE c.fn = "finalize" -> IF held = 1 THEN 0 ELSE -1
                    [] c.fn = "prepare" /\ c.rc = "OK" /\ c.kind # "none" ->
                         IF held = 0 THEN 1 ELSE -1
                    [] OTHER -> held
         IN  HeldAfter(Tail(calls), h)

TransOps == {"begin", "commit", "abort", "~Trans"}

(* C18: every successful compile is matched by exactly one release, on     *)
(* every exit path, an engine error included: a request never owns more    *)
(* than one unreleased handle, never releases one twice, and after         *)
(* clear(), reset() or its destruction no handle it compiled remains       *)
(* unreleased.                                                             *)
C18_HandleBalance ==
    [][ /\ last'.op \notin TransOps
           => HeldAfter(last'.calls, Held(m_stmt)) = Held(m_stmt')
        /\ last'.op \in {"clear", "reset", "~Req"}
           => m_stmt' = NoStmt ]_vars

C18_Witness ==
    /\ last.op = "~Req"
    /\ Len(last.calls) = 1
    /\ last.calls[1].fn = "finalize"

(* the offsets of the statements that calls compiled from the text of the  *)
(* buffer                                                                  *)
CompiledAts(calls) ==
    { calls[i].at : i \in { j \in 1 .. Len(calls) :
                              /\ calls[j].fn = "prepare"
                              /\ calls[j].rc = "OK"
                              /\ calls[j].kind # "none"
                              /\ ~calls[j].stale } }

(* C19: the offset is at most the buffer length in every reachable state,  *)
(* except once no statement is left to compile; the offset never exceeds   *)
(* the buffer length while a statement of the buffer is still uncompiled.  *)
C19_OffsetInBuffer ==
    [][ m_pos' > Len(m_sql')
        => \A i \in 1 .. Len(StmtOffsets(m_sql', m_pos)) :
               StmtOffsets(m_sql', m_pos)[i] \in CompiledAts(last'.calls) ]_vars

(* C20: after any sequence of begin(), commit() and abort() on a Trans,    *)
(* failed calls included, is_active() is true exactly when a BEGIN issued  *)
(* by that Trans was accepted by the engine and no COMMIT or ROLLBACK      *)
(* issued by it was accepted since: the flag starts false, an operation    *)
(* sets it exactly when its BEGIN is accepted and clears it exactly when   *)
(* its COMMIT or ROLLBACK is accepted.                                     *)
C20_ActiveIffOpen ==
    [][ \A t \in TransIds :
          LET mine == last'.arg = t
              c    == last'.calls
          IN  last'.op \in {"begin", "commit", "abort"}
              => /\ (~m_active[t] /\ m_active'[t])
                      <=> (mine /\ ~m_active[t] /\ Accepted(c, "B"))
                 /\ (m_active[t] /\ ~m_active'[t])
                      <=> (mine /\ m_active[t]
                             /\ (Accepted(c, "C") \/ Accepted(c, "R"))) ]_vars

(***************************************************************************)
(* Two threads, each with a request of its own, on the one connection.     *)
(* A step is one pass of a thread through the engine; the engine           *)
(* serializes the calls of the threads.                                    *)
(***************************************************************************)

(* the scripts the threads have streamed into their requests *)
ThreadScripts == { a \o b : a, b \in {<<"D", ";">>, <<"T", ";">>} }

InitThreads ==
    /\ m_sql = << >>
    /\ m_pos = 0
    /\ m_cols = 0
    /\ m_stmt = NoStmt
    /\ m_active = [t \in TransIds |-> FALSE]
    /\ db = [h |-> "open", txn |-> FALSE, lost |-> FALSE]
    /\ status = "running"
    /\ last = [op |-> "init", arg |-> 0, ret |-> 0, err |-> "none", calls |-> << >>]
    /\ fresh = FALSE
    /\ thr \in [Threads -> { ThreadReq(s) : s \in ThreadScripts }]

ThreadOp(t, tr, d, op, ret, err, calls) ==
    /\ thr' = [thr EXCEPT ![t] = tr]
    /\ db' = d
    /\ Done(op, t, ret, err, calls)

(* a thread enters exec_select(): the test of m_cols *)
ThreadExecSelect ==
    /\ \E t \in Threads :
         /\ thr[t].pc = "idle"
         /\ IF thr[t].q.cols # 0
            THEN ThreadOp(t, thr[t], db, "exec_select", 0, "usage", << >>)
            ELSE ThreadOp(t, [thr[t] EXCEPT !.pc = "prepare"], db, "enter", 0,
                          "none", << >>)
    /\ UNCHANGED <<m_sql, m_pos, m_cols, m_stmt, m_active, status, fresh>>

(* prepare() in the loop of exec_select(), and the return when no          *)
(* statement was compiled                                                  *)
ThreadPrepare ==
    /\ \E t \in Threads :
         /\ thr[t].pc = "prepare"
         /\ \E p \in prepare(thr[t].q, db) :
              IF p.err = "none" /\ p.q.stmt # NoStmt
              THEN ThreadOp(t, [thr[t] EXCEPT !.q = p.q, !.pc = "step",
                                              !.own = ~p.calls[Len(p.calls)].stale],
                            db, "prepare", 0, "none", p.calls)
              ELSE ThreadOp(t, [thr[t] EXCEPT !.q = p.q, !.pc = "idle"],
                            db, "exec_select", 0, p.err, p.calls)
    /\ UNCHANGED <<m_sql, m_pos, m_cols, m_stmt, m_active, status, fresh>>

(* sqlite3_step in the loop of exec_select(), and what follows it *)
ThreadStep ==
    /\ \E t \in Threads :
         /\ thr[t].pc = "step"
         /\ \E s \in StepOutcomes(thr[t].q.stmt, db) :
              LET h    == thr[t].q.stmt
                  q2   == [thr[t].q EXCEPT !.stmt = s.h]
                  log2 == Append(thr[t].log, [at |-> h.at, own |-> thr[t].own])
                  c    == << StepCall(h, s.rc) >>
              IN  CASE s.rc = "DONE" ->
                         ThreadOp(t, [thr[t] EXCEPT !.q = q2, !.pc = "prepare",
                                                    !.log = log2],
                                  s.d, "step", 0, "none", c)
                    [] s.rc = "ROW" ->
                         ThreadOp(t, [thr[t] EXCEPT
                                        !.q = [q2 EXCEPT !.cols = ColumnCount(h.kind)],
                                        !.pc = "idle", !.log = log2],
                                  s.d, "exec_select", ColumnCount(h.kind), "none", c)
                    [] OTHER ->
                         ThreadOp(t, [thr[t] EXCEPT !.q = q2, !.pc = "idle",
                                                    !.log = log2],
                                  s.d, "exec_select", 0, "engine", c)
    /\ UNCHANGED <<m_sql, m_pos, m_cols, m_stmt, m_active, status, fresh>>

(* a thread calls next_row() *)
ThreadNextRow ==
    /\ \E t \in Threads :
         /\ thr[t].pc = "idle"
         /\ \E o \in next_row(thr[t].q, db) :
              ThreadOp(t, [thr[t] EXCEPT !.q = o.q], o.d, "next_row", o.ret,
                       o.err, o.calls)
    /\ UNCHANGED <<m_sql, m_pos, m_cols, m_stmt, m_active, status, fresh>>

NextThreads ==
    \/ ThreadExecSelect
    \/ ThreadPrepare
    \/ ThreadStep
    \/ ThreadNextRow

SpecThreads == InitThreads /\ [][NextThreads]_vars

(* C14: with two threads each driving its own request on the same open     *)
(* connection, under every interleaving the buffer, offset, column count   *)
(* and compiled handle of a request are changed only by its own            *)
(* operations, and each request steps the statements of its own buffer,    *)
(* in the order of its buffer.                                             *)
C14_ThreadsApart ==
    [][ \A t \in Threads :
          /\ last'.arg # t => thr'[t] = thr[t]
          /\ \A i \in 1 .. Len(thr'[t].log) : thr'[t].log[i].own
          /\ IsPrefix(Ats(thr'[t].log), StmtOffsets(thr'[t].q.sql, 0)) ]_vars

(* C13: reopen() closes the handle the connection holds (nothing to close  *)
(* when it is null) before it opens the new one, and fails with an engine  *)
(* error when the open does not succeed; after any sequence of reopen()    *)
(* calls the connection owns at most one engine handle and every handle it *)
(* owned earlier has been released.                                        *)
C13_ReopenReleases ==
    [][ last'.op = "reopen"
        => LET c == last'.calls
               n == Len(c)
           IN  /\ n = IF db.h = "null" THEN 1 ELSE 2
               /\ c[n].fn = "open"
               /\ n = 2 => c[1].fn = "close"
               /\ (c[n].rc # "OK") = (last'.err = "engine")
               /\ ~db'.lost ]_vars

(* C21: after exec_select() returned 0 or exec() returned, the buffer being *)
(* exhausted, text appended through sql() and run with exec_select() or    *)
(* exec(), with no reset() or clear() between, is executed from its first  *)
(* appended byte: exactly the appended statements are executed and none of *)
(* the earlier ones again.                                                 *)
C21_ResumeAfterAppend ==
    [][ /\ (/\ last.op \in {"exec_select", "exec"}
            /\ last.err = "none" /\ last.ret = 0
            /\ last'.op = "sql")
           => m_pos' = Len(m_sql)
        /\ (/\ last.op = "sql" /\ m_pos = Len(m_sql) - last.arg /\ m_cols = 0
            /\ last'.err = "none")
           => /\ last'.op = "exec"
                   => ExecutedAll(m_sql, Len(m_sql) - last.arg, last'.calls)
              /\ last'.op = "exec_select"
                   => SelectedInOrder(m_sql, Len(m_sql) - last.arg,
                                      last'.calls, last'.ret) ]_vars

(* calls ends in a compile request that the engine refused *)
CompileFailed(calls) ==
    /\ calls # << >>
    /\ calls[Len(calls)].fn = "prepare"
    /\ calls[Len(calls)].rc = "ERROR"

(* C22: when the compile of the next statement fails, exec_select() fails  *)
(* with an engine error at once, with no further engine call, leaving the  *)
(* buffer, the offset and the column count (0) as they were and no         *)
(* compiled handle held, so that the next exec_select() attempts the same  *)
(* statement again.                                                        *)
C22_CompileFailure ==
    [][ /\ (/\ last'.op = "exec_select"
            /\ \E i \in 1 .. Len(last'.calls) :
                 last'.calls[i].fn = "prepare" /\ last'.calls[i].rc = "ERROR")
           => /\ CompileFailed(last'.calls)
              /\ last'.err = "engine"
              /\ m_sql' = m_sql
              /\ m_pos' = last'.calls[Len(last'.calls)].head
              /\ Len(Prepares(last'.calls)) = 1 => m_pos' = m_pos
              /\ m_cols' = 0
              /\ m_stmt' = NoStmt
        /\ (/\ last.op = "exec_select" /\ CompileFailed(last.calls)
            /\ last'.op = "exec_select")
           => /\ last'.calls # << >>
              /\ last'.calls[1].fn = "prepare"
              /\ last'.calls[1].head = last.calls[Len(last.calls)].head ]_vars

C22_Witness ==
    /\ last.op = "exec_select"
    /\ last.err = "engine"
    /\ CompileFailed(last.calls)
    /\ ~last.calls[Len(last.calls)].stale
    /\ m_pos < Len(m_sql)
    /\ m_stmt = NoStmt

(* C23: on every compile request of prepare() the range of text handed to  *)
(* the engine, from the offset for the byte length passed, lies inside the *)
(* buffer and its terminating zero byte: offset + length passed is at most *)
(* buffer length + 1.                                                      *)
C23_RangeInBuffer ==
    [][ last'.op \in {"exec_select", "exec"}
        => \A i \in 1 .. Len(last'.calls) :
               last'.calls[i].fn = "prepare"
                   => last'.calls[i].head + last'.calls[i].nByte <= Len(m_sql) + 1 ]_vars

(* the compile requests among calls that the engine accepted *)
IsCompiled(c) == c.fn = "prepare" /\ c.rc = "OK"

(* C24: exec() and exec_select() terminate: every compile made while the   *)
(* offset is below the buffer length strictly increases the offset, the    *)
(* offset never decreases except in clear() and reset(), and so the loop   *)
(* reaches offset >= buffer length, or an error or a row, after finitely   *)
(* many engine calls: at most one compile for each byte that remained.     *)
C24_Terminates ==
    [][ /\ last'.op \in {"exec_select", "exec"}
           => LET ok == SelectSeq(last'.calls, IsCompiled)
              IN  /\ \A i \in 1 .. Len(ok) :
                       /\ m_pos <= ok[i].head
                       /\ ok[i].head < (IF i < Len(ok) THEN ok[i + 1].head ELSE m_pos')
                  /\ m_pos < Len(m_sql) => Len(ok) <= Len(m_sql) - m_pos
                  /\ (last'.err = "none" /\ last'.ret = 0) => m_pos' >= Len(m_sql')
        /\ last'.op \notin {"clear", "reset", "~Req"} => m_pos' >= m_pos ]_vars

====
